---- MODULE Spec2Model ----
(***************************************************************************)
(* A model of yt_audio_info.py, a CGI handler that resolves a video URL to *)
(* a direct audio stream URL by running yt-dlp and reshaping its JSON.     *)
(*                                                                         *)
(* Conventions.                                                            *)
(*  - A Python str is a sequence of tokens; the text is the concatenation  *)
(*    of its tokens.  Separators ("&", "=", "?", "#"), whitespace and,     *)
(*    where the code looks at single characters (int(), len(), slicing),   *)
(*    every character are tokens of their own.  Description texts are      *)
(*    sequences of code points (naturals).                                 *)
(*  - A Python value that may be None is None == <<>> or Some(v) == <<v>>. *)
(*  - A Python dict is a function whose DOMAIN is the set of its keys.     *)
(*  - A Python int is [neg, mag]: sign and decimal digits, most            *)
(*    significant first (Python ints are unbounded).                       *)
(***************************************************************************)
EXTENDS Integers, Sequences, FiniteSets, TLC

VARIABLES
    QUERY_STRING,   \* os.environ["QUERY_STRING"]
    extractor,      \* what the yt-dlp subprocess does when it is run
    pc,             \* the block of the script about to run, or how it ended
    url,            \* line 18
    prefer_hls,     \* line 19
    calls,          \* the argument lists subprocess.run was called with
    proc,           \* line 34: the CompletedProcess
    info,           \* line 43
    locals,         \* lines 47-75: stream_url, thumb, short_desc, expire_*
    responses       \* the CGI responses printed on stdout, in order

vars == <<QUERY_STRING, extractor, pc, url, prefer_hls, calls, proc, info,
          locals, responses>>

----------------------------------------------------------------------------
(* Python values *)

None == <<>>
Some(v) == <<v>>

\* bool(x) of an optional str or list: None, "" and [] are falsy
Truthy(o) == o # None /\ o[1] # <<>>

\* d.get(k): None when the key is missing
Get(d, k) == IF k \in DOMAIN d THEN d[k] ELSE None

\* d.get(k, default)
GetDefault(d, k, default) == IF k \in DOMAIN d THEN d[k] ELSE default

EmptyDict == [k \in {} |-> None]

Last(s) == s[Len(s)]

----------------------------------------------------------------------------
(* str.strip(), str.split(), str.splitlines() *)

Whitespace == {" ", "\n", "\t"}

RECURSIVE lstrip(_)
lstrip(text) ==
    IF text # <<>> /\ Head(text) \in Whitespace THEN lstrip(Tail(text))
    ELSE text

RECURSIVE rstrip(_)
rstrip(text) ==
    IF text # <<>> /\ Last(text) \in Whitespace
    THEN rstrip(SubSeq(text, 1, Len(text) - 1))
    ELSE text

strip(text) == rstrip(lstrip(text))

\* the position of the first token equal to sep, 0 when there is none
find(text, sep) ==
    IF \E i \in DOMAIN text : text[i] = sep
    THEN CHOOSE i \in DOMAIN text :
            text[i] = sep /\ \A j \in 1..(i - 1) : text[j] # sep
    ELSE 0

RECURSIVE split(_, _)
\* text.split(sep): the pieces between the occurrences of sep
split(text, sep) ==
    LET i == find(text, sep) IN
    IF i = 0 THEN <<text>>
    ELSE <<SubSeq(text, 1, i - 1)>> \o split(SubSeq(text, i + 1, Len(text)), sep)

----------------------------------------------------------------------------
(* urllib.parse *)

\* parse_qsl(qs): the (name, value) pairs of a query string.  With the
\* defaults (keep_blank_values=False, strict_parsing=False) an empty piece,
\* a piece without "=" and a piece with a blank value are all skipped.
\* Percent-escapes and "+" are not in the alphabet of the inputs.
parse_qsl(qs) ==
    LET pieces == split(qs, "&")
        kept == SelectSeq(pieces, LAMBDA nv :
                    /\ nv # <<>>
                    /\ find(nv, "=") # 0
                    /\ find(nv, "=") < Len(nv))
    IN  [i \in DOMAIN kept |->
            LET eq == find(kept[i], "=") IN
            <<SubSeq(kept[i], 1, eq - 1), SubSeq(kept[i], eq + 1, Len(kept[i]))>>]

\* parse_qs(qs): name -> the list of its values, in order of appearance
parse_qs(qs) ==
    LET pairs == parse_qsl(qs)
        names == {pairs[i][1] : i \in DOMAIN pairs}
    IN  [n \in names |->
            LET mine == SelectSeq(pairs, LAMBDA p : p[1] = n)
            IN  [i \in DOMAIN mine |-> mine[i][2]]]

\* urlparse(u) raises ValueError ("Invalid IPv6 URL") when the host part has
\* a "[" without its "]" or the reverse; in the inputs brackets occur only
\* in the host part
urlparse_raises(u) ==
    (\E i \in DOMAIN u : u[i] = "[") # (\E i \in DOMAIN u : u[i] = "]")

\* urlparse(u).query: what follows the first "?", the fragment cut off first
urlparse_query(u) ==
    LET h == find(u, "#")
        nofrag == IF h = 0 THEN u ELSE SubSeq(u, 1, h - 1)
        q == find(nofrag, "?")
    IN  IF q = 0 THEN <<>> ELSE SubSeq(nofrag, q + 1, Len(nofrag))

----------------------------------------------------------------------------
(* int() and datetime.fromtimestamp() *)

Digits == {"0", "1", "2", "3", "4", "5", "6", "7", "8", "9"}

DigitValue(c) ==
    CASE c = "0" -> 0 [] c = "1" -> 1 [] c = "2" -> 2 [] c = "3" -> 3
      [] c = "4" -> 4 [] c = "5" -> 5 [] c = "6" -> 6 [] c = "7" -> 7
      [] c = "8" -> 8 [] c = "9" -> 9

RECURSIVE strip_zeros(_)
strip_zeros(mag) ==
    IF Len(mag) > 1 /\ Head(mag) = 0 THEN strip_zeros(Tail(mag)) ELSE mag

\* the sign and the digit run of a stripped literal
int_sign(t) == IF t # <<>> /\ Head(t) \in {"-", "+"} THEN Head(t) ELSE "+"
int_body(t) == IF t # <<>> /\ Head(t) \in {"-", "+"} THEN Tail(t) ELSE t

\* int(s): None stands for ValueError, raised unless s, stripped, is an
\* optional sign and one or more decimal digits ("_" between digits is not
\* in the input alphabet); otherwise Some(the value)
int(s) ==
    LET t == strip(s)
        body == int_body(t)
        mag == strip_zeros([i \in DOMAIN body |-> DigitValue(body[i])])
    IN  IF body = <<>> \/ \E i \in DOMAIN body : body[i] \notin Digits
        THEN None
        ELSE Some([neg |-> int_sign(t) = "-" /\ mag # <<0>>, mag |-> mag])

\* the int n < 2^31 as a Python int
RECURSIVE nat_digits(_)
nat_digits(n) == IF n < 10 THEN <<n>> ELSE nat_digits(n \div 10) \o <<n % 10>>
PyInt(n) == [neg |-> n < 0, mag |-> nat_digits(IF n < 0 THEN -n ELSE n)]

\* a <= b on digit sequences without leading zeros
mag_le(a, b) ==
    \/ Len(a) < Len(b)
    \/ /\ Len(a) = Len(b)
       /\ \/ a = b
          \/ \E i \in DOMAIN a :
                a[i] < b[i] /\ \A j \in 1..(i - 1) : a[j] = b[j]

\* datetime.max is 9999-12-31T23:59:59 and datetime.min 0001-01-01T00:00:00:
\* 253402300799 and -62135596800 seconds from the epoch (at UTC; the local
\* offset moves both by less than a day)
TimestampMax == <<2, 5, 3, 4, 0, 2, 3, 0, 0, 7, 9, 9>>
TimestampMin == <<6, 2, 1, 3, 5, 5, 9, 6, 8, 0, 0>>

\* datetime.datetime.fromtimestamp(ts) raises OverflowError, OSError or
\* ValueError for a timestamp outside the years 1..9999
fromtimestamp_raises(ts) ==
    IF ts.neg THEN ~mag_le(ts.mag, TimestampMin) ELSE ~mag_le(ts.mag, TimestampMax)

\* fromtimestamp(ts).isoformat(): a text determined by ts
isoformat(ts) == [isoformat_of |-> ts]

----------------------------------------------------------------------------
(* stdout of the subprocess and json.loads *)

\* stdout is a sequence of chunks: a line break, the text of one JSON value,
\* or text that is not JSON
NL == [t |-> "nl"]
Junk == [t |-> "junk"]
Doc(v) == [t |-> "json", v |-> v]

\* JSON values: an object (a dict of its members) or something else
JObject(d) == [k |-> "dict", d |-> d]
JList == [k |-> "list"]

\* str.splitlines(): the lines, without a last empty one after a final break
splitlines(out) ==
    LET pieces == split(out, NL)
    IN  IF Last(pieces) = <<>> THEN SubSeq(pieces, 1, Len(pieces) - 1)
        ELSE pieces

\* json.loads(line) raises unless the line is the text of exactly one value
json_raises(line) == ~(Len(line) = 1 /\ line[1].t = "json")
json_loads(line) == line[1].v

----------------------------------------------------------------------------
(* Field derivations, lines 47-75 *)

\* line 57, the sort key: lambda t: t.get("width", 0)
width_key(t) == GetDefault(t, "width", Some(0))

\* sorted() compares the keys with "<": a key that is None (a JSON null
\* width) raises TypeError as soon as there are two entries to compare
sorted_raises(thumbs) ==
    Len(thumbs) >= 2 /\ \E i \in DOMAIN thumbs : width_key(thumbs[i]) = None

\* e put into the sorted list s behind every entry whose key is not larger
insert_by_width(e, s) ==
    LET n == Cardinality({i \in DOMAIN s : width_key(s[i])[1] <= width_key(e)[1]})
    IN  SubSeq(s, 1, n) \o <<e>> \o SubSeq(s, n + 1, Len(s))

RECURSIVE sorted_by_width(_)
\* sorted(thumbs, key=...): ascending and stable
sorted_by_width(thumbs) ==
    IF Len(thumbs) <= 1 THEN thumbs
    ELSE insert_by_width(Last(thumbs),
                         sorted_by_width(SubSeq(thumbs, 1, Len(thumbs) - 1)))

\* the variant that takes sorted(...)[0]
pick_widest_first(thumbs) == Head(sorted_by_width(thumbs))
\* line 57: sorted(...)[-1]
pick_widest(thumbs) == Last(sorted_by_width(thumbs))

\* line 55: info.get("thumbnails") or []
thumbs_of(d) ==
    IF Truthy(Get(d, "thumbnails")) THEN Get(d, "thumbnails")[1] ELSE <<>>

\* lines 54-57
thumb_of(d) ==
    IF thumbs_of(d) = <<>> THEN None ELSE Get(pick_widest(thumbs_of(d)), "url")

Ellipsis == 8230
TruncateOver == 198
TruncateKeep == 197

\* the variant that slices at the length it compares with
truncate_keep_all(full) ==
    IF Len(full) > TruncateOver
    THEN SubSeq(full, 1, TruncateOver) \o <<Ellipsis>> ELSE full
\* line 63
truncate(full) ==
    IF Len(full) > TruncateOver
    THEN SubSeq(full, 1, TruncateKeep) \o <<Ellipsis>> ELSE full

\* lines 60-63
short_desc_of(d) ==
    IF Truthy(Get(d, "shortDescription")) THEN Get(d, "shortDescription")
    ELSE LET full == IF Truthy(Get(d, "description"))
                     THEN Get(d, "description")[1] ELSE <<>>
         IN  Some(truncate(full))

NoExpire == [expire_ts |-> None, expire_human |-> None]

\* lines 66-75.  expire_ts is assigned before fromtimestamp is called, so
\* an exception of fromtimestamp leaves it set.
expire_of(stream_url) ==
    IF ~Truthy(stream_url) THEN NoExpire
    ELSE LET q == parse_qs(urlparse_query(stream_url[1])) IN
         IF <<"expire">> \notin DOMAIN q THEN NoExpire
         ELSE LET v == q[<<"expire">>][1] IN
              IF int(v) = None THEN NoExpire
              ELSE IF fromtimestamp_raises(int(v)[1])
                   THEN [expire_ts |-> int(v), expire_human |-> None]
                   ELSE [expire_ts |-> int(v),
                         expire_human |-> Some(isoformat(int(v)[1]))]

----------------------------------------------------------------------------
(* The script *)

CorsHeader == "Access-Control-Allow-Origin: *"

MissingUrl == <<"Missing required query parameter: url">>
ExtractorFailed == <<"yt-dlp failed">>
FormatHls == <<"bestaudio[protocol^=m3u8]/bestaudio">>
FormatM4a == <<"bestaudio[ext=m4a]/bestaudio">>

\* the block that follows pc in the script's text
fall_through(label) ==
    CASE label = "ValidateInput" -> "InvokeExtractor"
      [] label = "InvokeExtractor" -> "CheckExit"
      [] label = "CheckExit" -> "ParseOutput"
      [] label = "ParseOutput" -> "NormalizeFields"
      [] OTHER -> "Respond"

error_response(status_code, message) ==
    [status |-> status_code,
     headers |-> <<"Content-Type: application/json", CorsHeader>>,
     body |-> [ok |-> FALSE, error |-> message]]

\* the variant without sys.exit(0): the script goes on after the error
http_error_returns(status_code, message) ==
    /\ responses' = Append(responses, error_response(status_code, message))
    /\ pc' = fall_through(pc)

\* the variant whose status line is the server's default, 200
http_error_no_status(status_code, message) ==
    /\ responses' = Append(responses, error_response(200, message))
    /\ pc' = "EmitError"

\* lines 6-13: print the error response, then sys.exit(0)
http_error(status_code, message) ==
    /\ responses' = Append(responses, error_response(status_code, message))
    /\ pc' = "EmitError"

\* the variant that ignores the case of the flag's value
flag_of_any_case(v) == v \in {<<"1">>, <<"true">>, <<"yes">>, <<"TRUE">>, <<"YES">>}
\* line 19: the flag's value is compared with the three spellings as it is
flag_of(v) == v \in {<<"1">>, <<"true">>, <<"yes">>}

\* line 26
format_of(hls) == IF hls THEN FormatHls ELSE FormatM4a

\* lines 16-22
ValidateInput ==
    /\ pc = "ValidateInput"
    /\ LET params == parse_qs(QUERY_STRING)
           u == IF <<"url">> \in DOMAIN params
                THEN Some(params[<<"url">>][1]) ELSE None
           h == flag_of(GetDefault(params, <<"prefer_hls">>, << <<"0">> >>)[1])
       IN  /\ url' = u
           /\ prefer_hls' = h
           /\ IF ~Truthy(u) THEN http_error(400, MissingUrl)
              ELSE pc' = "InvokeExtractor" /\ UNCHANGED responses
    /\ UNCHANGED <<QUERY_STRING, extractor, calls, proc, info, locals>>

\* lines 24-36.  subprocess.run raises when yt-dlp cannot be started or has
\* not ended after 60 seconds; the PATH given to it is a copy and no state.
InvokeExtractor ==
    /\ pc = "InvokeExtractor"
    /\ calls' = Append(calls, <<<<"yt-dlp">>, <<"-f">>, format_of(prefer_hls),
                               <<"--dump-json">>, url>>)
    /\ IF extractor.raises # None
       THEN /\ http_error(500, <<"Failed to run yt-dlp: ">> \o extractor.raises[1])
            /\ UNCHANGED proc
       ELSE /\ proc' = Some([returncode |-> extractor.returncode,
                             stdout |-> extractor.stdout,
                             stderr |-> extractor.stderr])
            /\ pc' = "CheckExit"
            /\ UNCHANGED responses
    /\ UNCHANGED <<QUERY_STRING, extractor, url, prefer_hls, info, locals>>

\* the variant without strip()
failure_text_unstripped(stderr) == IF stderr # <<>> THEN stderr ELSE ExtractorFailed
\* line 39: proc.stderr.strip() or "yt-dlp failed"
failure_text(stderr) ==
    IF strip(stderr) # <<>> THEN strip(stderr) ELSE ExtractorFailed

\* lines 38-39
CheckExit ==
    /\ pc = "CheckExit"
    /\ IF proc[1].returncode # 0
       THEN http_error(502, failure_text(proc[1].stderr))
       ELSE pc' = "ParseOutput" /\ UNCHANGED responses
    /\ UNCHANGED <<QUERY_STRING, extractor, url, prefer_hls, calls, proc, info,
                   locals>>

\* the variant that takes splitlines()[0]
record_line_first(lines) == Head(lines)
\* line 43: proc.stdout.splitlines()[-1]
record_line(lines) == Last(lines)

\* lines 41-45.  [-1] of no lines raises IndexError, json.loads ValueError.
ParseOutput ==
    /\ pc = "ParseOutput"
    /\ LET lines == splitlines(proc[1].stdout) IN
       IF lines = <<>>
       THEN /\ http_error(500, <<"Invalid yt-dlp JSON: ", "list index out of range">>)
            /\ UNCHANGED info
       ELSE IF json_raises(record_line(lines))
       THEN /\ http_error(500, <<"Invalid yt-dlp JSON: ", "Expecting value">>)
            /\ UNCHANGED info
       ELSE /\ info' = Some(json_loads(record_line(lines)))
            /\ pc' = "NormalizeFields"
            /\ UNCHANGED responses
    /\ UNCHANGED <<QUERY_STRING, extractor, url, prefer_hls, calls, proc, locals>>

\* lines 47-75 raise, and nothing catches it: info.get on a value that is
\* no dict (AttributeError, line 47), the sort of line 57 (TypeError), or
\* urlparse at line 69, which is outside the try of lines 71-75 (ValueError)
normalize_raises(v) ==
    \/ v.k # "dict"
    \/ sorted_raises(thumbs_of(v.d))
    \/ Truthy(Get(v.d, "url")) /\ urlparse_raises(Get(v.d, "url")[1])

\* lines 47-75.  An uncaught exception ends the script with a traceback on
\* stderr and nothing printed on stdout.
NormalizeFields ==
    /\ pc = "NormalizeFields"
    /\ IF normalize_raises(info[1])
       THEN pc' = "Crashed" /\ UNCHANGED locals
       ELSE LET d == info[1].d IN
            /\ locals' = Some([stream_url |-> Get(d, "url"),
                               title |-> Get(d, "title"),
                               uploader |-> Get(d, "uploader"),
                               duration |-> Get(d, "duration"),
                               ext |-> Get(d, "ext"),
                               thumb |-> thumb_of(d),
                               short_desc |-> short_desc_of(d),
                               expire_ts |-> expire_of(Get(d, "url")).expire_ts,
                               expire_human |-> expire_of(Get(d, "url")).expire_human])
            /\ pc' = "Respond"
    /\ UNCHANGED <<QUERY_STRING, extractor, url, prefer_hls, calls, proc, info,
                   responses>>

\* lines 77-91
payload ==
    [ok |-> TRUE,
     title |-> locals[1].title,
     uploader |-> locals[1].uploader,
     duration |-> locals[1].duration,
     ext |-> locals[1].ext,
     stream_url |-> locals[1].stream_url,
     thumbnail_url |-> locals[1].thumb,
     shortDescription |-> locals[1].short_desc,
     expire_ts |-> locals[1].expire_ts,
     expire_human |-> locals[1].expire_human,
     original_url |-> url,
     prefer_hls |-> prefer_hls]

\* lines 93-98
Respond ==
    /\ pc = "Respond"
    /\ responses' = Append(responses,
            [status |-> 200,
             headers |-> <<"Content-Type: application/json; charset=utf-8",
                           CorsHeader>>,
             body |-> payload])
    /\ pc' = "EmitSuccess"
    /\ UNCHANGED <<QUERY_STRING, extractor, url, prefer_hls, calls, proc, info,
                   locals>>

Next ==
    \/ ValidateInput
    \/ InvokeExtractor
    \/ CheckExit
    \/ ParseOutput
    \/ NormalizeFields
    \/ Respond

----------------------------------------------------------------------------
(* The requests and extractor behaviours explored *)

MaxParams == 2      \* "&"-separated pieces of a query string
MaxChunks == 3      \* chunks of stdout
MaxStderr == 3      \* tokens of stderr
MaxThumbs == 2      \* entries of a thumbnails list
MaxDescLen == 300   \* characters of the longest description

BoundedSeq(S, n) == UNION {[1..k -> S] : k \in 0..n}

RECURSIVE join(_, _)
\* sep.join(pieces)
join(pieces, sep) ==
    IF pieces = <<>> THEN <<>>
    ELSE IF Len(pieces) = 1 THEN pieces[1]
    ELSE pieces[1] \o <<sep>> \o join(Tail(pieces), sep)

VideoUrl == <<"https://youtu.be/v">>

FlagValues == {<<"0">>, <<"1">>, <<"true">>, <<"yes">>, <<"TRUE">>, <<"1", "1">>}

QueryPieces ==
    {<<>>, <<"url">>, <<"url", "=">>, <<"url", "=">> \o VideoUrl,
     <<"prefer_hls", "=">>, <<"x", "=", "y">>}
    \cup {<<"prefer_hls", "=">> \o f : f \in FlagValues}

QueryStrings == {join(ps, "&") : ps \in BoundedSeq(QueryPieces, MaxParams)}

PlainQueries ==
    {<<"url", "=">> \o VideoUrl,
     <<"url", "=">> \o VideoUrl \o <<"&", "prefer_hls", "=", "1">>}

\* a text of n characters, each position its own code point
Chars(n) == [i \in 1..n |-> 1000 + i]

ExpireValues ==
    {<<"1", "7", "0", "0", "0", "0", "0", "0", "0", "0">>,
     <<"0", "1", "2">>,
     <<"-", "5">>,
     <<"a", "b", "c">>,
     <<"1", "x">>,
     <<"2", "5", "3", "4", "0", "2", "3", "0", "0", "7", "9", "9">>,
     <<"2", "5", "3", "4", "0", "2", "3", "0", "0", "8", "0", "0">>,
     <<"9", "9", "9", "9", "9", "9", "9", "9", "9", "9",
       "9", "9", "9", "9", "9", "9", "9", "9", "9", "9">>,
     <<"-", "9", "9", "9", "9", "9", "9", "9", "9", "9", "9", "9", "9", "9", "9">>}

StreamPieces ==
    {<<"expire">>, <<"expire", "=">>, <<"k", "=", "v">>}
    \cup {<<"expire", "=">> \o v : v \in ExpireValues}

StreamBase == <<"https://cdn/a">>

StreamUrls ==
    {<<>>, StreamBase,
     StreamBase \o <<"?", "k", "=", "v", "#", "expire", "=", "1", "2">>,
     StreamBase \o <<"#", "f", "?", "expire", "=", "1", "2">>,
     <<"http://", "[", "::1", "]", "/", "?", "expire", "=", "1", "2">>,
     <<"http://", "[", "::1", "/", "?", "k", "=", "v">>}
    \cup {StreamBase \o <<"?">> \o join(ps, "&") :
            ps \in BoundedSeq(StreamPieces, MaxParams)}

Title == "title" :> Some(<<"x">>)

UrlRecords ==
    {Title, Title @@ ("url" :> None)}
    \cup {Title @@ ("url" :> Some(u)) : u \in StreamUrls}

ThumbEntries ==
    {w @@ u : w \in {EmptyDict, "width" :> None, "width" :> Some(100),
                     "width" :> Some(500)},
              u \in {EmptyDict, "url" :> Some(<<"A">>), "url" :> Some(<<"B">>)}}

ThumbRecords ==
    {Title @@ ("thumbnails" :> None)}
    \cup {Title @@ ("thumbnails" :> Some(l)) : l \in BoundedSeq(ThumbEntries, MaxThumbs)}

DescLens == {0, 100, MaxDescLen} \cup ((TruncateOver - 3)..(TruncateOver + 3))

DescRecords ==
    {s @@ f : s \in {EmptyDict, "shortDescription" :> None,
                     "shortDescription" :> Some(<<>>),
                     "shortDescription" :> Some(Chars(3)),
                     "shortDescription" :> Some(Chars(MaxDescLen))},
              f \in {EmptyDict, "description" :> None}
                    \cup {"description" :> Some(Chars(n)) : n \in DescLens}}

Records == UrlRecords \cup ThumbRecords \cup DescRecords

R1 == Title @@ ("url" :> Some(StreamBase \o <<"?", "expire", "=", "1", "2">>))
R2 == "uploader" :> Some(<<"u">>)

Stdouts ==
    BoundedSeq({NL, Junk, Doc(JList), Doc(JObject(R1)), Doc(JObject(R2))}, MaxChunks)
    \cup {<<Doc(JObject(r))>> : r \in Records}

Stderrs == BoundedSeq({" ", "\n", "ERROR: video unavailable"}, MaxStderr)

Raised(e) == [raises |-> Some(e), returncode |-> 0, stdout |-> <<>>, stderr |-> <<>>]
Exited(rc, out, err) ==
    [raises |-> None, returncode |-> rc, stdout |-> out, stderr |-> err]

Extractors ==
    {Raised(<<"Command timed out after 60 seconds">>),
     Raised(<<"No such file or directory: 'yt-dlp'">>)}
    \cup {Exited(rc, out, err) : rc \in {1, 2}, err \in Stderrs,
              out \in {<<>>, <<Doc(JObject(R1)), NL>>}}
    \cup {Exited(0, out, <<>>) : out \in Stdouts}

PlainExtractors ==
    {Raised(<<"Command timed out after 60 seconds">>),
     Exited(1, <<>>, <<"ERROR: video unavailable", "\n">>),
     Exited(0, <<Doc(JObject(R1)), NL>>, <<"WARNING", "\n">>)}

Requests ==
    (QueryStrings \X PlainExtractors) \cup (PlainQueries \X Extractors)

Init ==
    /\ \E r \in Requests : QUERY_STRING = r[1] /\ extractor = r[2]
    /\ pc = "ValidateInput"
    /\ url = None
    /\ prefer_hls = FALSE
    /\ calls = <<>>
    /\ proc = None
    /\ info = None
    /\ locals = None
    /\ responses = <<>>

Spec == Init /\ [][Next]_vars

----------------------------------------------------------------------------
(* Vocabulary of the properties, stated on the inputs and the output *)

\* the script has ended: a response path completed, or an uncaught exception
Stopped == pc \in {"EmitSuccess", "EmitError", "Crashed"}

\* the extractor ran to completion with this kind of exit code
ExitedZero == proc # None /\ proc[1].returncode = 0
ExitedNonZero == proc # None /\ proc[1].returncode # 0

QueryPiecesOf(name) ==
    SelectSeq(split(QUERY_STRING, "&"), LAMBDA p : p # <<>> /\ p[1] = name)

\* no piece of the query string names url
NoUrlParameter == QueryPiecesOf("url") = <<>>

\* the first non-blank value given for prefer_hls is one of the three
RequestedHls ==
    LET given == SelectSeq(QueryPiecesOf("prefer_hls"),
                           LAMBDA p : Len(p) >= 3 /\ p[2] = "=")
    IN  given # <<>> /\ SubSeq(given[1], 3, Len(given[1]))
                            \in {<<"1">>, <<"true">>, <<"yes">>}

\* text without its leading and trailing whitespace tokens
Trimmed(text) ==
    LET solid == {i \in DOMAIN text : text[i] \notin {" ", "\n", "\t"}}
    IN  IF solid = {} THEN <<>>
        ELSE SubSeq(text, CHOOSE i \in solid : \A j \in solid : i <= j,
                          CHOOSE i \in solid : \A j \in solid : i >= j)

IsErrorResponse(r, status, message) ==
    /\ r.status = status
    /\ r.body = [ok |-> FALSE, error |-> message]

\* the record the success response was built from
Record == info[1].d
Body == responses[1].body

\* width of a thumbnail entry, 0 when it has none
WidthOrZero(e) ==
    IF "width" \in DOMAIN e /\ e["width"] # None THEN e["width"][1] ELSE 0

\* the text of the record's url after its first "?", up to a "#"
QueryText ==
    LET u == Get(Record, "url")[1]
        cut == {i \in DOMAIN u : u[i] = "#"}
        end == IF cut = {} THEN Len(u)
               ELSE (CHOOSE i \in cut : \A j \in cut : i <= j) - 1
        marks == {i \in 1..end : u[i] = "?"}
    IN  IF marks = {} THEN <<>>
        ELSE SubSeq(u, (CHOOSE i \in marks : \A j \in marks : i <= j) + 1, end)

\* the value of the first non-blank expire component of the record's url,
\* None when the url is absent or has no such component
ExpireComponent ==
    IF ~Truthy(Get(Record, "url")) THEN None
    ELSE LET given == SelectSeq(split(QueryText, "&"), LAMBDA p :
                          Len(p) >= 3 /\ p[1] = "expire" /\ p[2] = "=")
         IN  IF given = <<>> THEN None
             ELSE Some(SubSeq(given[1], 3, Len(given[1])))

\* an optional sign and at least one decimal digit
IsIntegerLiteral(v) ==
    LET body == IF v # <<>> /\ v[1] \in {"+", "-"} THEN Tail(v) ELSE v
    IN  body # <<>> /\ \A i \in DOMAIN body : body[i] \in Digits

\* a JSON object whose thumbnail widths, where given, are numbers
ValidRecord(v) ==
    /\ v.k = "dict"
    /\ \A i \in DOMAIN thumbs_of(v.d) :
          "width" \in DOMAIN thumbs_of(v.d)[i] => thumbs_of(v.d)[i]["width"] # None

----------------------------------------------------------------------------
(* Properties *)

\* C1: whenever the handler has stopped, it stopped in EmitSuccess or
\* EmitError having emitted exactly one response, whose status is one of
\* 200, 400, 500, 502 and which carries the cross-origin-allow header.
C1_AlwaysResponds ==
    Stopped =>
        /\ pc \in {"EmitSuccess", "EmitError"}
        /\ Len(responses) = 1
        /\ responses[1].status \in {200, 400, 500, 502}
        /\ \E i \in DOMAIN responses[1].headers :
              responses[1].headers[i] = "Access-Control-Allow-Origin: *"

\* C2: in every success response expire_human is non-null if and only if
\* expire_ts is non-null.
C2_ExpireFieldsTogether ==
    pc = "EmitSuccess" => ((Body.expire_human # None) <=> (Body.expire_ts # None))

\* C3: when the query string names no url parameter, the handler ends with
\* the single response 400, ok:false, error "Missing required query
\* parameter: url", whatever else the query string holds.
C3_MissingUrl ==
    (pc # "ValidateInput" /\ NoUrlParameter) =>
        /\ pc = "EmitError"
        /\ Len(responses) = 1
        /\ IsErrorResponse(responses[1], 400,
                           <<"Missing required query parameter: url">>)

\* C3 case: no url, prefer_hls=1 given, the 400 emitted
C3_Witness ==
    /\ pc = "EmitError"
    /\ NoUrlParameter
    /\ RequestedHls
    /\ responses[1].status = 400

\* C4 as stated: after a non-zero exit the response is 502, ok:false, with
\* the trimmed stderr as error, or "extractor failed" when that is empty,
\* and stdout is never parsed.
C4_GenericIsExtractorFailed ==
    (ExitedNonZero /\ pc # "CheckExit") =>
        /\ pc = "EmitError"
        /\ Len(responses) = 1
        /\ IsErrorResponse(responses[1], 502,
                IF Trimmed(proc[1].stderr) # <<>> THEN Trimmed(proc[1].stderr)
                ELSE <<"extractor failed">>)
        /\ info = None

\* C4 amended: after a non-zero exit the response is 502, ok:false, with
\* the trimmed stderr as error, or "yt-dlp failed" when that is empty, and
\* stdout is never parsed.
C4_NonZeroExit ==
    (ExitedNonZero /\ pc # "CheckExit") =>
        /\ pc = "EmitError"
        /\ Len(responses) = 1
        /\ IsErrorResponse(responses[1], 502,
                IF Trimmed(proc[1].stderr) # <<>> THEN Trimmed(proc[1].stderr)
                ELSE <<"yt-dlp failed">>)
        /\ info = None

\* C4 case: a non-zero exit with stdout written and a whitespace-only stderr
C4_Witness ==
    /\ pc = "EmitError"
    /\ ExitedNonZero
    /\ proc[1].stdout # <<>>
    /\ proc[1].stderr # <<>>
    /\ Trimmed(proc[1].stderr) = <<>>
    /\ responses[1].status = 502

\* C5: after a zero exit only the last line of stdout is parsed: when
\* there is no line or the last one is not JSON the handler ends with the
\* single response 500, ok:false; otherwise the parsed record is the last
\* line's value whatever the earlier lines hold, no error is emitted for
\* them, and a success response passes on the last line's fields.
C5_LastLineOnly ==
    (ExitedZero /\ pc \notin {"CheckExit", "ParseOutput"}) =>
        LET lines == splitlines(proc[1].stdout) IN
        IF lines = <<>> \/ json_raises(Last(lines))
        THEN /\ pc = "EmitError"
             /\ Len(responses) = 1
             /\ responses[1].status = 500
             /\ responses[1].body.ok = FALSE
        ELSE /\ info = Some(Last(lines)[1].v)
             /\ pc # "EmitError"
             /\ \A i \in DOMAIN responses : responses[i].status = 200
             /\ pc = "EmitSuccess" =>
                   /\ Body.title = Get(Last(lines)[1].v.d, "title")
                   /\ Body.uploader = Get(Last(lines)[1].v.d, "uploader")
                   /\ Body.stream_url = Get(Last(lines)[1].v.d, "url")

\* C5 case: a success built from the second line, the first being no JSON
C5_Witness ==
    /\ pc = "EmitSuccess"
    /\ Len(splitlines(proc[1].stdout)) = 2
    /\ splitlines(proc[1].stdout)[1] = <<Junk>>
    /\ Body.ok

\* C6: an error response is terminal: at most one response is ever
\* emitted, an emitted error leaves the handler in EmitError where no step
\* is possible, the extractor is invoked at most once, and never once a 400
\* has been emitted.
C6_ErrorIsTerminal ==
    /\ Len(responses) <= 1
    /\ Len(calls) <= 1
    /\ (\E i \in DOMAIN responses : responses[i].status # 200) => pc = "EmitError"
    /\ pc = "EmitError" => ~ENABLED Next
    /\ (\E i \in DOMAIN responses : responses[i].status = 400) => calls = <<>>

\* C6 case: a 500 emitted after the extractor was invoked once
C6_Witness ==
    /\ pc = "EmitError"
    /\ responses[1].status = 500
    /\ Len(calls) = 1
    /\ proc # None

\* C7: in a success response thumbnail_url is null when the record has no
\* thumbnails or an empty list, and otherwise the url of an entry whose
\* width (0 when it has none) is at least that of every entry; stream_url
\* is null when the record has no url.
C7_WidestThumbnail ==
    pc = "EmitSuccess" =>
        LET list == Get(Record, "thumbnails") IN
        /\ (list = None \/ list = Some(<<>>)) => Body.thumbnail_url = None
        /\ (list # None /\ list # Some(<<>>)) =>
              \E i \in DOMAIN list[1] :
                 /\ Body.thumbnail_url = Get(list[1][i], "url")
                 /\ \A j \in DOMAIN list[1] :
                       WidthOrZero(list[1][i]) >= WidthOrZero(list[1][j])
        /\ "url" \notin DOMAIN Record => Body.stream_url = None

\* C7 case: widths 500 (B) and 100 (A), no url: B chosen, stream_url null
C7_Witness ==
    /\ pc = "EmitSuccess"
    /\ Get(Record, "thumbnails") =
          Some(<<("width" :> Some(500)) @@ ("url" :> Some(<<"B">>)),
                 ("width" :> Some(100)) @@ ("url" :> Some(<<"A">>))>>)
    /\ "url" \notin DOMAIN Record
    /\ Body.thumbnail_url = Some(<<"B">>)
    /\ Body.stream_url = None

\* C8: when the record's shortDescription is absent or empty, the emitted
\* shortDescription is the description (empty when absent) unchanged if it
\* has at most 198 characters and otherwise its first 197 characters and
\* one ellipsis, so never more than 198 characters; a non-empty
\* shortDescription is passed through untouched.
C8_ShortDescription ==
    pc = "EmitSuccess" =>
        LET sd == Get(Record, "shortDescription")
            full == IF Get(Record, "description") = None THEN <<>>
                    ELSE Get(Record, "description")[1]
        IN  IF sd = None \/ sd = Some(<<>>)
            THEN /\ Len(full) <= 198 => Body.shortDescription = Some(full)
                 /\ Len(full) > 198 =>
                       Body.shortDescription =
                          Some([i \in 1..198 |-> IF i <= 197 THEN full[i] ELSE 8230])
                 /\ Len(Body.shortDescription[1]) <= 198
            ELSE Body.shortDescription = sd

\* C8 case: no shortDescription, a description of 199 characters cut to 198
C8_Witness ==
    /\ pc = "EmitSuccess"
    /\ "shortDescription" \notin DOMAIN Record
    /\ Get(Record, "description") # None
    /\ Len(Get(Record, "description")[1]) = 199
    /\ Len(Body.shortDescription[1]) = 198

\* C9: prefer_hls is true exactly when the parameter's value is "1", "true"
\* or "yes"; the format expression given to the extractor puts the HLS
\* selector first exactly then and the m4a selector first otherwise, both
\* with bestaudio as the fallback; the success response echoes the flag.
C9_PreferHls ==
    pc # "ValidateInput" =>
        /\ prefer_hls = RequestedHls
        /\ \A i \in DOMAIN calls :
              calls[i][3] = IF RequestedHls
                            THEN <<"bestaudio[protocol^=m3u8]/bestaudio">>
                            ELSE <<"bestaudio[ext=m4a]/bestaudio">>
        /\ pc = "EmitSuccess" => Body.prefer_hls = RequestedHls

\* C9 case: a true flag selects the HLS expression and is echoed
C9_Witness ==
    /\ pc = "EmitSuccess"
    /\ RequestedHls
    /\ Len(QueryPiecesOf("prefer_hls")) = 1
    /\ Body.prefer_hls
    /\ calls[1][3] = <<"bestaudio[protocol^=m3u8]/bestaudio">>

\* C10: after a zero exit whose last line is a valid metadata record, a
\* stream_url that is absent, has no expire component or has one that is
\* no integer ends in the single response 200, ok:true, with expire_ts and
\* expire_human null, never in an error or without a response;
\* expire=1700000000 gives expire_ts 1700000000.
C10_ExpireSoftFailure ==
    (Stopped /\ ExitedZero /\ info # None /\ ValidRecord(info[1])) =>
        /\ (ExpireComponent = None \/ ~IsIntegerLiteral(ExpireComponent[1])) =>
              /\ pc = "EmitSuccess"
              /\ Len(responses) = 1
              /\ responses[1].status = 200
              /\ Body.ok
              /\ Body.expire_ts = None
              /\ Body.expire_human = None
        /\ ExpireComponent = Some(<<"1", "7", "0", "0", "0", "0", "0", "0", "0", "0">>) =>
              /\ pc = "EmitSuccess"
              /\ Body.expire_ts = Some(PyInt(1700000000))
              /\ Body.expire_human # None

====
